---- MODULE Spec2Model ----
(***************************************************************************)
(* Fetch-and-extract engine of the marketplace / maps parsers:             *)
(*   - BaseParser._make_request over a requests.Session mounted with       *)
(*     urllib3 Retry(total=3, status_forcelist=[429,500,502,503,504])      *)
(*   - WildberriesParser.parse_search (API channel, alternate endpoints,   *)
(*     web channel) and the one-request parse_search /                     *)
(*     search_organizations of the other adapters                          *)
(*   - WildberriesParser._extract_products (standard JSON paths, deep      *)
(*     structure scan, HTML card extractor)                                *)
(*   - the bot handler's answer to the user                                *)
(* Time is counted in ticks of 0.5 s.                                      *)
(***************************************************************************)
EXTENDS Integers, Sequences, FiniteSets, TLC

VARIABLES
    adapter,      \* which parser class the instance is
    delay,        \* self.delay, in ticks
    pc,           \* position of the instance: new/init/init2/ready/api/alt/catalog/web/search/done
    retpc,        \* where _init_session returns to
    attempt,      \* loop variable of the API loop of parse_search
    web_attempt,  \* loop variable of the web loop of parse_search
    tries,        \* HTTP attempts already made by the transport call in flight
    reinits,      \* _init_session calls made by the running search
    calls,        \* _make_request calls the search has finished
    prev,         \* the finished _make_request call before the last one
    apiLast,      \* the last finished _make_request call of the API loop
    last,         \* the last finished _make_request call
    log,          \* the channel events parse_search has logged
    result,       \* list returned by the search operation
    answer,       \* what the bot handler tells the user
    blocked,      \* ticks the adapter has slept since the last HTTP response
    lastStatus,   \* outcome of the last HTTP attempt on the session (-1: none yet)
    gapOk,        \* no request was sent sooner than delay after a successful one
    allFailed,    \* every HTTP attempt of the search failed so far
    doc,          \* document handed to _extract_products (extraction on its own)
    out,          \* list returned by _extract_products
    ran,          \* strategies _extract_products ran, in order
    limit,        \* the limit argument of the search (0: None)
    raw,          \* raw record handed to validation and normalisation
    canon,        \* what validation and normalisation made of it
    price_text,   \* text handed to an adapter's _parse_price
    price,        \* the number _parse_price returned
    card,         \* HTML card handed to an adapter's card extractor
    product,      \* what the card extractor made of it
    now,          \* the clock datetime.now reads
    first,        \* the model of the first of two runs on one record
    products_file,       \* data/products.json
    organizations_file,  \* data/organizations.json
    batch,        \* raw records the bot handler last received from an adapter
    models,       \* the models the handler built from them
    save_ok,      \* what the last save_products / save_organizations returned
    last_op,      \* the last operation on the store
    filters,      \* the filters argument of the last get_products / get_organizations
    got,          \* the list it returned
    hpc,          \* position of each command handler running on the event loop
    running,      \* the handler that holds the event loop's thread (0: none)
    session_open, \* whether the requests.Session of each handler's parser is open
    use_proxy,    \* the use_proxy argument of the adapter's constructor
    proxy,        \* its proxy argument ("": None)
    query,        \* the search term
    location,     \* the location argument of search_organizations (<<>>: None)
    search_url,   \* what _build_search_url returned
    routes,       \* the requests the adapter has sent and the way each went
    spc,          \* position of each of two JSONStorage instances in save_products
    existing,     \* the local list of each instance
    batches       \* the models each instance is to append

\* the state of the fetch-and-extract engine
fetchVars == <<adapter, delay, pc, retpc, attempt, web_attempt, tries, reinits, calls,
               prev, apiLast, last, log, result, answer, blocked, lastStatus, gapOk,
               allFailed, doc, out, ran, limit>>

\* the state of the functions applied to one record, text or card
recordVars == <<raw, canon, price_text, price, card, product, now, first>>

\* the state of the JSON store and of the handler's tail
storeVars == <<products_file, organizations_file, batch, models, save_ok, last_op,
               filters, got>>

\* the state of the event loop
loopVars == <<hpc, running, session_open>>

\* the state of an adapter that builds its search url and sends requests
adapterVars == <<use_proxy, proxy, query, location, search_url, routes>>

\* the state of two store instances over one data directory
raceVars == <<spc, existing, batches>>

vars == <<fetchVars, recordVars, storeVars, loopVars, adapterVars, raceVars>>

(***************************************************************************)
(* Bounds                                                                  *)
(***************************************************************************)
MaxItems == 2

\* the longest price text tried, beyond the two of the price heuristic
MaxText == 3

\* the number of commands whose handlers overlap
MaxCommands == 3

\* the most records a store file holds
MaxStored == 2

\* the most records an adapter returns to a handler
MaxBatch == 2

(***************************************************************************)
(* Documents.  A raw item of a JSON array or an HTML card carries an id    *)
(* (0: no id key) and a name ("": no name key).                            *)
(***************************************************************************)
Ids == {0, 7}

Names == {"", "a", "ab"}

Items == [id : Ids, name : Names]

RECURSIVE SeqsUpTo(_, _)
SeqsUpTo(S, n) ==
    IF n = 0 THEN {<<>>}
    ELSE LET shorter == SeqsUpTo(S, n - 1)
         IN shorter \cup {Append(s, x) : s \in {t \in shorter : Len(t) = n - 1}, x \in S}

ItemLists == SeqsUpTo(Items, MaxItems)

\* fmt: "html"     text that json.loads rejects
\*      "json"     a JSON object whose text starts with "{"
\*      "json_ws"  a JSON object whose text starts with white space
\*      "json_arr" a JSON array
\* shard: the object has a shardKey containing "presets/"
\* dp:   the array data.products (hasDp: the key exists)
\* val:  the array under the root key "value" (hasVal: the key exists)
\* arr:  the elements of a top-level JSON array
\* cards: the product cards of an HTML page
MkDoc(fmt, shard, hasDp, dp, hasVal, val, arr, cards) ==
    [fmt |-> fmt, shard |-> shard, hasDp |-> hasDp, dp |-> dp,
     hasVal |-> hasVal, val |-> val, arr |-> arr, cards |-> cards]

NoDoc == MkDoc("html", FALSE, FALSE, <<>>, FALSE, <<>>, <<>>, <<>>)

JsonDocs ==
    {MkDoc(f, FALSE, hd, IF hd THEN d ELSE <<>>, hv, IF hv THEN v ELSE <<>>, <<>>, <<>>) :
        f \in {"json", "json_ws"}, hd \in BOOLEAN, d \in ItemLists,
        hv \in BOOLEAN, v \in ItemLists}

ArrDocs == {MkDoc("json_arr", FALSE, FALSE, <<>>, FALSE, <<>>, a, <<>>) : a \in ItemLists}

HtmlDocs == {MkDoc("html", FALSE, FALSE, <<>>, FALSE, <<>>, <<>>, c) : c \in ItemLists}

AllDocs == JsonDocs \cup ArrDocs \cup HtmlDocs

(***************************************************************************)
(* WildberriesParser._extract_products                                     *)
(***************************************************************************)
Take(s, n) == IF Len(s) <= n THEN s ELSE SubSeq(s, 1, n)

\* the product dict built from an item: the url is the detail page when an id
\* was found and a search-query url built from the name otherwise
Product(item) ==
    [id |-> item.id, name |-> item.name,
     url |-> IF item.id # 0 THEN "detail" ELSE IF item.name # "" THEN "search" ELSE ""]

RECURSIVE MapProduct(_)
MapProduct(s) == IF s = <<>> THEN <<>> ELSE <<Product(Head(s))>> \o MapProduct(Tail(s))

\* BaseParser.validate_data for source 'wildberries': name and url non-empty
validate_data(p) == p.name # "" /\ p.url # ""

\* standard JSON paths: which array is taken as products_data
StdProductsData(d) ==
    IF d.hasDp /\ d.dp # <<>> THEN d.dp ELSE <<>>

StdValid(item) == validate_data(Product(item)) /\ item.name # ""

DeepValid(item) == item.name # "" /\ Len(item.name) >= 2

HtmlValid(c) == c.name # ""

Valid(mode, item) ==
    CASE mode = "std" -> StdValid(item)
      [] mode = "deep" -> DeepValid(item)
      [] OTHER -> HtmlValid(item)

\* the items of s that pass the validity test of a strategy, in order
RECURSIVE Keep(_, _)
Keep(s, mode) ==
    IF s = <<>> THEN <<>>
    ELSE IF Valid(mode, Head(s)) THEN <<Head(s)>> \o Keep(Tail(s), mode)
         ELSE Keep(Tail(s), mode)

\* strategy 1: the records of the standard JSON paths
StdStrategy(d) ==
    IF d.fmt \in {"json", "json_ws"}
    THEN MapProduct(Keep(StdProductsData(d), "std"))
    ELSE <<>>

HasProductSigns(list) == list # <<>> /\ (list[1].id # 0 \/ list[1].name # "")

\* find_product_arrays: <<path class, array>> in discovery order; class 0 when
\* the path contains a priority key, 1 otherwise
find_product_arrays(d) ==
    IF d.fmt = "json_arr"
    THEN IF HasProductSigns(d.arr) THEN <<[cls |-> 1, items |-> d.arr]>> ELSE <<>>
    ELSE (IF d.hasDp /\ HasProductSigns(d.dp) THEN <<[cls |-> 0, items |-> d.dp]>> ELSE <<>>)
         \o (IF d.hasVal /\ HasProductSigns(d.val) THEN <<[cls |-> 1, items |-> d.val]>> ELSE <<>>)

\* sort key (class, length) compared as tuples
KeyLess(a, b) ==
    \/ a.cls < b.cls
    \/ a.cls = b.cls /\ Len(a.items) < Len(b.items)

\* list.sort(key=..., reverse=True): descending by key, equal keys keep their order
RECURSIVE InsertDesc(_, _)
InsertDesc(sorted, x) ==
    IF sorted = <<>> THEN <<x>>
    ELSE IF KeyLess(Head(sorted), x) THEN <<x>> \o sorted
         ELSE <<Head(sorted)>> \o InsertDesc(Tail(sorted), x)

RECURSIVE SortArrays(_)
SortArrays(s) ==
    IF s = <<>> THEN <<>>
    ELSE InsertDesc(SortArrays(SubSeq(s, 1, Len(s) - 1)), s[Len(s)])

DeepLimit == 10

DeepFromArray(a) == Take(MapProduct(Keep(a.items, "deep")), DeepLimit)

RECURSIVE FirstYield(_)
FirstYield(arrays) ==
    IF arrays = <<>> THEN <<>>
    ELSE IF DeepFromArray(Head(arrays)) # <<>> THEN DeepFromArray(Head(arrays))
         ELSE FirstYield(Tail(arrays))

\* strategy 2: the deep structure scan
DeepStrategy(d) == FirstYield(SortArrays(find_product_arrays(d)))

\* strategy 3: _extract_products_from_html; JSON text holds no card
HtmlStrategy(d) ==
    IF d.fmt = "html" THEN MapProduct(Keep(d.cards, "html")) ELSE <<>>

StartsWithBrace(d) == d.fmt = "json"

\* _extract_products: the list returned and the strategies run
extract_products(d) ==
    IF d.fmt = "html"
    THEN [products |-> HtmlStrategy(d), ran |-> <<"html">>]
    ELSE IF d.fmt = "json_arr"
    THEN [products |-> HtmlStrategy(d), ran |-> <<"std", "html">>]
    ELSE IF StdStrategy(d) # <<>>
    THEN [products |-> StdStrategy(d), ran |-> <<"std">>]
    ELSE IF ~StartsWithBrace(d)
    THEN [products |-> HtmlStrategy(d), ran |-> <<"std", "html">>]
    ELSE [products |-> DeepStrategy(d), ran |-> <<"std", "deep">>]

(***************************************************************************)
(* Resilient transport: requests.Session with urllib3 Retry, and           *)
(* BaseParser._make_request on top of it                                   *)
(***************************************************************************)
NetErr == 0

Statuses == {200, 204, 403, 498, 503}

Outcomes == Statuses \cup {NetErr}

\* Retry(total=3, ...): the number of retries urllib3 allows after the first attempt
RetryTotal == 3

status_forcelist == {429, 500, 502, 503, 504}

Retryable(s) == s = NetErr \/ s \in status_forcelist

\* slip: the bound of the retries compared with <= instead of <
WillRetry_OffByOne(s, n) == Retryable(s) /\ n <= RetryTotal

\* whether the mounted HTTPAdapter sends the request again after outcome s,
\* n attempts having been answered before this one
WillRetry(s, n) == Retryable(s) /\ n < RetryTotal

Failed(s) == s = NetErr \/ s >= 400

\* slip: no exemption of status 498 from raise_for_status
make_request_Raise498(s) ==
    IF Retryable(s)
    THEN [ret |-> "none", status |-> s, slept |-> FALSE]
    ELSE IF s >= 400
    THEN [ret |-> "resp", status |-> s, slept |-> FALSE]
    ELSE [ret |-> "resp", status |-> s, slept |-> TRUE]

\* _make_request on the final outcome of session.request: the value returned
\* (ret "resp": a Response with that status, "none": None) and whether
\* time.sleep(self.delay) ran
make_request(s) ==
    IF Retryable(s)
    THEN [ret |-> "none", status |-> s, slept |-> FALSE]
    ELSE IF s = 498
    THEN [ret |-> "resp", status |-> s, slept |-> TRUE]
    ELSE IF s >= 400
    THEN [ret |-> "resp", status |-> s, slept |-> FALSE]
    ELSE [ret |-> "resp", status |-> s, slept |-> TRUE]

\* slip: "if response is not None" instead of "if response"
Truthy_NotNone(r) == r.ret = "resp"

\* truth value of a _make_request result in "if response:" (a Response is
\* true exactly when its status is below 400)
Truthy(r) == r.ret = "resp" /\ r.status < 400

(***************************************************************************)
(* Adapters                                                                *)
(***************************************************************************)
Adapters == {"wildberries", "ozon", "uzum", "google_maps", "yandex_maps", "2gis"}

HasInitSession(a) == a \in {"wildberries", "uzum"}

\* self.delay: 1.0 s (the default) or 1.5 s (the bot's parsers)
Delays == {2, 3}

Limits == {0, 1}

max_retries == 3

web_max_retries == 2

Max(a, b) == IF a >= b THEN a ELSE b

Min(a, b) == IF a <= b THEN a ELSE b

base_delay(d) == Max(d, 2)

RECURSIVE Pow2(_)
Pow2(n) == IF n = 0 THEN 1 ELSE 2 * Pow2(n - 1)

ApplyLimit(p, lim) == IF lim # 0 THEN Take(p, lim) ELSE p

P(i, n) == [id |-> i, name |-> n]

\* bodies the servers answer with
SearchDocs ==
    { MkDoc("json", FALSE, FALSE, <<>>, FALSE, <<>>, <<>>, <<>>),
      MkDoc("json", TRUE, FALSE, <<>>, FALSE, <<>>, <<>>, <<>>),
      MkDoc("json", FALSE, TRUE, <<P(7, "ab"), P(0, "ab")>>, FALSE, <<>>, <<>>, <<>>),
      MkDoc("html", FALSE, FALSE, <<>>, FALSE, <<>>, <<>>, <<>>),
      MkDoc("html", FALSE, FALSE, <<>>, FALSE, <<>>, <<>>, <<P(7, "ab")>>) }

\* the extractor an adapter runs on a body
Extract(a, body) ==
    IF a = "wildberries" THEN extract_products(body).products
    ELSE HtmlStrategy(body)

\* json.loads(response.text) gives a dict with a shardKey containing 'presets/'
HasShardKey(body) == body.fmt \in {"json", "json_ws"} /\ body.shard

Ev(ch, ev) == [ch |-> ch, ev |-> ev]

\* what a step of parse_search decides: where it goes next, the loop
\* variables, the ticks slept, whether _init_session is called on the way,
\* the list returned when it returns, and the events logged
Step(to, att, watt, sleep, init, res, logs) ==
    [to |-> to, att |-> att, watt |-> watt, sleep |-> sleep, init |-> init,
     res |-> res, logs |-> logs]

\* leaving the API loop for the web fallback: time.sleep(1) comes first
ToWeb(att, sleep, init, logs) == Step("web", att, 0, sleep + 2, init, <<>>, logs)

\* "continue" of the API loop: the next attempt, or the web fallback when the
\* range is used up
ContinueApi(att, sleep, init, logs) ==
    IF att + 1 < max_retries
    THEN Step("api", att + 1, 0, sleep, init, <<>>, logs)
    ELSE ToWeb(att, sleep, init, logs)

\* slip: an API answer without products ends the search instead of
\* falling back to the web channel
ApiStep_NoFallback(r, body, att, d, lim) ==
    IF Truthy(r) /\ r.status = 200
    THEN Step("done", att, 0, 1, FALSE, ApplyLimit(extract_products(body).products, lim),
              IF extract_products(body).products # <<>>
              THEN {Ev("api", "received")} ELSE {Ev("api", "no_products")})
    ELSE ToWeb(att, 0, FALSE, {Ev("api", "failed")})

\* WildberriesParser.parse_search, one pass of the API loop after
\* _make_request returned r with the given body
ApiStep(r, body, att, d, lim) ==
    IF Truthy(r)
    THEN IF r.status = 200
         THEN IF extract_products(body).products # <<>>
              THEN Step("done", att, 0, 1, FALSE,
                        ApplyLimit(extract_products(body).products, lim),
                        {Ev("api", "received")})
              ELSE IF HasShardKey(body)
                   THEN Step("alt", att, 0, 0, FALSE, <<>>, {Ev("api", "no_products")})
                   ELSE ToWeb(att, 0, FALSE, {Ev("api", "no_products")})
         ELSE IF r.status = 429
         THEN ContinueApi(att, base_delay(d) * Pow2(att + 1), TRUE, {Ev("api", "rate_limit")})
         ELSE IF r.status \in {498, 403, 503}
         THEN ContinueApi(att, base_delay(d) * (att + 1), FALSE, {Ev("api", "retry_status")})
         ELSE IF att = max_retries - 1
              THEN ToWeb(att, 0, FALSE, {Ev("api", "status"), Ev("api", "failed")})
              ELSE Step("api", att + 1, 0, 0, FALSE, <<>>, {Ev("api", "status")})
    ELSE ToWeb(att, 0, FALSE, {Ev("api", "failed")})

\* the alternate endpoint tried when the API body carries a shardKey
AltStep(r, body, att, lim) ==
    IF Truthy(r) /\ r.status = 200 /\ extract_products(body).products # <<>>
    THEN Step("done", att, 0, 0, FALSE,
              ApplyLimit(extract_products(body).products, lim), {Ev("alt", "received")})
    ELSE Step("catalog", att, 0, 0, FALSE, <<>>, {})

\* the catalog endpoint tried after the alternate endpoint
CatalogStep(r, body, att, lim) ==
    IF Truthy(r) /\ r.status = 200 /\ extract_products(body).products # <<>>
    THEN Step("done", att, 0, 0, FALSE,
              ApplyLimit(extract_products(body).products, lim), {Ev("catalog", "received")})
    ELSE ToWeb(att, 0, FALSE, {})

\* slip: the web channel's event does not tell an empty answer apart
WebLog_NoCount(products) == Ev("web", "returned_n")

\* the event logged when the web channel answered 200
WebLog(products) ==
    IF products = <<>> THEN Ev("web", "returned_0") ELSE Ev("web", "returned_n")

\* slip: the web loop allows one retry too many
WebStep_OneMore(r, body, att, watt, d, lim) ==
    IF Truthy(r) /\ r.status = 200
    THEN Step("done", att, watt, 0, FALSE,
              ApplyLimit(extract_products(body).products, lim),
              {WebLog(ApplyLimit(extract_products(body).products, lim))})
    ELSE IF ~Truthy(r) /\ watt < web_max_retries
    THEN Step("web", att, watt + 1, base_delay(d) * (watt + 1), FALSE, <<>>,
              {Ev("web", "error_retry")})
    ELSE Step("done", att, watt, 0, FALSE, <<>>, {Ev("web", "error")})

\* one pass of the web loop after _make_request returned r
WebStep(r, body, att, watt, d, lim) ==
    IF Truthy(r) /\ r.status = 200
    THEN Step("done", att, watt, 0, FALSE,
              ApplyLimit(extract_products(body).products, lim),
              {WebLog(ApplyLimit(extract_products(body).products, lim))})
    ELSE IF Truthy(r) /\ r.status = 498
    THEN IF watt < web_max_retries - 1
         THEN Step("web", att, watt + 1, base_delay(d) * (watt + 1) * 2, TRUE, <<>>,
                   {Ev("web", "soft_block_retry")})
         ELSE Step("done", att, watt, 0, FALSE, <<>>, {Ev("web", "soft_block")})
    ELSE IF ~Truthy(r)
    THEN IF watt < web_max_retries - 1
         THEN Step("web", att, watt + 1, base_delay(d) * (watt + 1), FALSE, <<>>,
                   {Ev("web", "error_retry")})
         ELSE Step("done", att, watt, 0, FALSE, <<>>, {Ev("web", "error")})
    ELSE Step("done", att, watt, 0, FALSE, <<>>, {Ev("web", "status")})

\* BaseMarketplaceParser.parse_search / BaseMapsParser.search_organizations
BaseStep(a, r, body, lim) ==
    IF ~Truthy(r)
    THEN Step("done", 0, 0, 0, FALSE, <<>>, {})
    ELSE Step("done", 0, 0, 0, FALSE, ApplyLimit(Extract(a, body), lim), {})

\* the bot handler: "found N", "not found", or the text of an exception
Answer(raised, products) ==
    IF raised THEN "error"
    ELSE IF products = <<>> THEN "none_found" ELSE "found"

(***************************************************************************)
(* Numbers read from text.  A text is a sequence of characters; a number   *)
(* is a decimal mant / 10^scale without trailing zeros in its fraction.    *)
(***************************************************************************)
Digits == {"0", "1", "2", "3", "4", "5", "6", "7", "8", "9"}

Dec(m, s) == [mant |-> m, scale |-> s]

RECURSIVE Norm(_)
Norm(d) ==
    IF d.scale > 0 /\ d.mant % 10 = 0 THEN Norm(Dec(d.mant \div 10, d.scale - 1)) ELSE d

\* re.sub(r'[^...]', '', cs): the characters of the class stay
RECURSIVE ReSubKeep(_, _)
ReSubKeep(class, cs) ==
    IF cs = <<>> THEN <<>>
    ELSE IF Head(cs) \in class THEN <<Head(cs)>> \o ReSubKeep(class, Tail(cs))
         ELSE ReSubKeep(class, Tail(cs))

\* str.replace(old, new) for one-character old; new is a text
RECURSIVE Replace(_, _, _)
Replace(cs, old, new) ==
    IF cs = <<>> THEN <<>>
    ELSE (IF Head(cs) = old THEN new ELSE <<Head(cs)>>) \o Replace(Tail(cs), old, new)

\* the text without the white space around it
StripWs(cs) ==
    LET inked == {i \in 1..Len(cs) : cs[i] # " "}
    IN IF inked = {} THEN <<>>
       ELSE SubSeq(cs, CHOOSE i \in inked : \A j \in inked : i <= j,
                       CHOOSE i \in inked : \A j \in inked : i >= j)

\* the number the digits of cs spell, the other characters skipped
RECURSIVE DigitsValue(_, _)
DigitsValue(cs, acc) ==
    IF cs = <<>> THEN acc
    ELSE IF Head(cs) \in Digits
         THEN DigitsValue(Tail(cs),
                          10 * acc + (CHOOSE v \in 0..9 : ToString(v) = Head(cs)))
         ELSE DigitsValue(Tail(cs), acc)

\* float(text): white space around the text is skipped; digits with at most
\* one dot convert (the digits after the dot are the fraction), anything
\* else raises ValueError
FloatOfText(cs) ==
    LET s == StripWs(cs)
        dots == {i \in 1..Len(s) : s[i] = "."}
    IN IF \/ \E i \in 1..Len(s) : s[i] \notin Digits \cup {"."}
          \/ Cardinality(dots) > 1
          \/ ReSubKeep(Digits, s) = <<>>
       THEN [ok |-> FALSE, val |-> Dec(0, 0)]
       ELSE [ok |-> TRUE,
             val |-> Norm(Dec(DigitsValue(s, 0),
                              IF dots = {} THEN 0 ELSE Len(s) - (CHOOSE i \in dots : TRUE)))]

\* int(text): only digits convert
IntOfText(cs) ==
    LET s == StripWs(cs)
    IN IF s = <<>> \/ \E i \in 1..Len(s) : s[i] \notin Digits
       THEN [ok |-> FALSE, val |-> Dec(0, 0)]
       ELSE [ok |-> TRUE, val |-> Dec(DigitsValue(s, 0), 0)]

(***************************************************************************)
(* _parse_price of the listing adapters                                    *)
(***************************************************************************)
\* OzonParser._parse_price
ozon_parse_price(cs) ==
    LET cleaned == Replace(ReSubKeep(Digits \cup {",", "."}, Replace(cs, " ", <<>>)), ",", <<".">>)
    IN IF FloatOfText(cleaned).ok THEN FloatOfText(cleaned).val ELSE Dec(0, 0)

\* WildberriesParser._parse_price: the digits, divided by 100
wildberries_parse_price(cs) ==
    LET cleaned == ReSubKeep(Digits, Replace(cs, " ", <<>>))
    IN IF FloatOfText(cleaned).ok
       THEN Norm(Dec(FloatOfText(cleaned).val.mant, FloatOfText(cleaned).val.scale + 2))
       ELSE Dec(0, 0)

\* UzumParser._parse_price: a comma becomes white space, then only the digits stay
uzum_parse_price(cs) ==
    LET cleaned == Replace(ReSubKeep(Digits \cup {" "}, Replace(cs, ",", <<" ">>)), " ", <<>>)
    IN IF cleaned # <<>> /\ FloatOfText(cleaned).ok
       THEN FloatOfText(cleaned).val
       ELSE Dec(0, 0)

parse_price(a, cs) ==
    CASE a = "ozon" -> ozon_parse_price(cs)
      [] a = "wildberries" -> wildberries_parse_price(cs)
      [] OTHER -> uzum_parse_price(cs)

(***************************************************************************)
(* Raw records (the dicts the adapters hand over) and their validation     *)
(* and normalisation.  A text key is absent or holds a string: a body with *)
(* or without white space around it.  A number key is absent or holds      *)
(* None, a number, or a text.                                              *)
(***************************************************************************)
NoKey == [k |-> "missing", pad |-> FALSE, body |-> ""]

Str(pad, body) == [k |-> "str", pad |-> pad, body |-> body]

\* truth value of dict.get(key) for a text key
TruthyText(v) == v.k = "str" /\ (v.pad \/ v.body # "")

\* value.strip() is empty
Blank(v) == v.body = ""

\* a number key: k is "missing", "none", "num" (the number d) or "text" (the
\* text cs)
NumKey(k, d, cs) == [k |-> k, d |-> d, cs |-> cs]

NoNum == NumKey("missing", Dec(0, 0), <<>>)

Num(m, s) == NumKey("num", Dec(m, s), <<>>)

\* float(dict.get(key, 0))
PyFloat(v) ==
    CASE v.k = "missing" -> [ok |-> TRUE, val |-> Dec(0, 0)]
      [] v.k = "none" -> [ok |-> FALSE, val |-> Dec(0, 0)]
      [] v.k = "num" -> [ok |-> TRUE, val |-> Norm(v.d)]
      [] OTHER -> FloatOfText(v.cs)

\* int(dict.get(key, 0)): a number is truncated toward zero
PyInt(v) ==
    CASE v.k = "missing" -> [ok |-> TRUE, val |-> Dec(0, 0)]
      [] v.k = "none" -> [ok |-> FALSE, val |-> Dec(0, 0)]
      [] v.k = "num" -> [ok |-> TRUE,
                         val |-> Dec(IF v.d.mant < 0 THEN 0 - ((0 - v.d.mant) \div 10 ^ v.d.scale)
                                     ELSE v.d.mant \div 10 ^ v.d.scale, 0)]
      [] OTHER -> IntOfText(v.cs)

RawRecord(name, url, source, pr, rating, reviews, coords) ==
    [name |-> name, url |-> url, source |-> source, price |-> pr, rating |-> rating,
     reviews_count |-> reviews, coordinates |-> coords]

\* a required field of validate_data: present, true, not blank
RequiredOk(v) == v.k # "missing" /\ TruthyText(v) /\ ~Blank(v)

\* data.get('source', '').lower() is one of the given tags
SourceIn(v, tags) == v.k = "str" /\ ~v.pad /\ v.body \in tags

\* BaseParser.validate_data on any dict
BaseParser_validate_data(data) ==
    IF SourceIn(data.source, {"wildberries", "ozon", "uzum"}) \/ data.price.k # "missing"
    THEN RequiredOk(data.name) /\ RequiredOk(data.url) /\ RequiredOk(data.source)
    ELSE IF SourceIn(data.source, {"google_maps", "yandex_maps", "2gis"}) \/ data.coordinates
    THEN RequiredOk(data.name) /\ RequiredOk(data.source)
    ELSE TRUE

\* a Product or Organization model, or None (ok FALSE); name, url and source
\* are texts
Model(name, url, source, pr, rating, reviews) ==
    [ok |-> TRUE, name |-> name, url |-> url, source |-> source, price |-> pr,
     rating |-> rating, reviews_count |-> reviews]

None == [ok |-> FALSE, name |-> NoKey, url |-> NoKey, source |-> NoKey, price |-> Dec(0, 0),
         rating |-> Dec(0, 0), reviews_count |-> Dec(0, 0)]

\* the model as pydantic builds it: parsed_at is what datetime.now reads
\* when the constructor runs
Stamped(m, t) == IF m.ok THEN m @@ [parsed_at |-> t] ELSE m

\* TelegramBot._validate_and_normalize_product; str(value).strip() leaves the
\* body of the text
validate_and_normalize_product(p) ==
    IF ~TruthyText(p.name) \/ ~TruthyText(p.url) \/ ~TruthyText(p.source)
    THEN None
    ELSE IF ~PyFloat(p.price).ok \/ ~PyFloat(p.rating).ok \/ ~PyInt(p.reviews_count).ok
    THEN None
    ELSE Model(Str(FALSE, p.name.body), Str(FALSE, p.url.body), Str(FALSE, p.source.body),
               PyFloat(p.price).val, PyFloat(p.rating).val, PyInt(p.reviews_count).val)

\* Organization(**o): pydantic needs name and source to be strings and
\* rating and reviews_count to convert; the strings are kept as they are
Organization(o) ==
    IF o.name.k # "str" \/ o.source.k # "str"
       \/ ~PyFloat(o.rating).ok \/ ~PyInt(o.reviews_count).ok
    THEN None
    ELSE Model(o.name, o.url, o.source,
               Dec(0, 0), PyFloat(o.rating).val, PyInt(o.reviews_count).val)

\* UzumParser._validate_product_data: whether the card is kept (a price that
\* is no number raises at "price < 0", and the caller skips the card) and the
\* dict as the method leaves it, a negative price set to 0
uzum_validate_product_data(p) ==
    IF ~RequiredOk(p.name) \/ ~RequiredOk(p.url) \/ ~RequiredOk(p.source)
    THEN [ok |-> FALSE, rec |-> p]
    ELSE IF p.price.k \in {"none", "text"}
    THEN [ok |-> FALSE, rec |-> p]
    ELSE IF PyFloat(p.price).ok /\ PyFloat(p.rating).ok /\ PyInt(p.reviews_count).ok
    THEN [ok |-> TRUE,
          rec |-> [p EXCEPT !.price = IF PyFloat(p.price).val.mant < 0 THEN Num(0, 0)
                                      ELSE Num(PyFloat(p.price).val.mant,
                                               PyFloat(p.price).val.scale),
                            !.rating = Num(PyFloat(p.rating).val.mant, PyFloat(p.rating).val.scale),
                            !.reviews_count = Num(PyInt(p.reviews_count).val.mant, 0)]]
    ELSE [ok |-> TRUE,
          rec |-> [p EXCEPT !.price = Num(0, 0), !.rating = Num(0, 0),
                            !.reviews_count = Num(0, 0)]]

\* the validation an adapter runs on a record before it returns it
Validated(a, p) ==
    IF a = "uzum" THEN uzum_validate_product_data(p)
    ELSE [ok |-> BaseParser_validate_data(p), rec |-> p]

\* the model the bot handler of an adapter builds from a record (None: the
\* record is dropped or, for an organization, the constructor raised)
Normalized(a, p) ==
    IF a \in {"ozon", "wildberries", "uzum"} THEN validate_and_normalize_product(p)
    ELSE IF TruthyText(p.name) THEN Organization(p) ELSE None

(***************************************************************************)
(* Card extractors of the listing adapters.  A card carries two of its     *)
(* name locators in declared order (found or not, and the text found), an  *)
(* id attribute (0: none), its a[href] element ("": none, "detail": a link *)
(* to a product page, "search": a link to the search page for "abcd"; the  *)
(* link has no text, title or aria-label), its price-labelled element and  *)
(* the biggest number of more than three characters in its text (0: none). *)
(***************************************************************************)
Cards ==
    LET Locators == {[found |-> FALSE, text |-> ""], [found |-> TRUE, text |-> ""],
                     [found |-> TRUE, text |-> "abc"], [found |-> TRUE, text |-> "abcd"]}
        Labels == {[found |-> FALSE, text |-> <<>>], [found |-> TRUE, text |-> <<>>],
                   [found |-> TRUE, text |-> <<"2", "0", "0", "0">>]}
    IN {c \in [loc1 : Locators, loc2 : Locators, id : Ids, link : {"", "detail", "search"},
               label : Labels, biggest : {0, 2000}] :
            c.label.text # <<>> => c.biggest = 2000}

NoCard ==
    [loc1 |-> [found |-> FALSE, text |-> ""], loc2 |-> [found |-> FALSE, text |-> ""],
     id |-> 0, link |-> "", label |-> [found |-> FALSE, text |-> <<>>], biggest |-> 0]

NoProduct == [ok |-> FALSE, name |-> "", url |-> "", query |-> "", price |-> Dec(0, 0)]

\* the loop over name_selectors: name becomes the text of every element
\* found, and the loop ends at a text of more than three characters
RECURSIVE name_loop(_, _)
name_loop(selectors, name) ==
    IF selectors = <<>> THEN name
    ELSE IF Head(selectors).found
         THEN IF Len(Head(selectors).text) > 3
              THEN Head(selectors).text
              ELSE name_loop(Tail(selectors), Head(selectors).text)
         ELSE name_loop(Tail(selectors), name)

\* the name an adapter takes from a card.  Ozon: the text of the first
\* element found.  Wildberries and Uzum: the loop, whose last selector is
\* the link, then the text of the link, and for Uzum the last segment of
\* its href.
card_name(a, c) ==
    LET looped == name_loop(<<c.loc1, c.loc2, [found |-> c.link # "", text |-> ""]>>, "")
        short == looped = "" \/ Len(looped) < 3
    IN CASE a = "ozon" -> IF c.loc1.found THEN c.loc1.text
                          ELSE IF c.loc2.found THEN c.loc2.text ELSE ""
         [] a = "wildberries" -> IF short /\ c.link # "" THEN "" ELSE looped
         [] OTHER -> IF short /\ c.link # ""
                     THEN IF c.link = "detail" THEN "slug" ELSE "search?query=abcd"
                     ELSE looped

\* OzonParser._extract_products, one card: without a link the url is ''
\* and validate_data turns the card down
ozon_extract_card(c) ==
    LET name == card_name("ozon", c)
    IN IF validate_data([name |-> name, url |-> c.link]) /\ name # ""
       THEN [ok |-> TRUE, name |-> name, url |-> c.link,
             query |-> IF c.link = "search" THEN "abcd" ELSE "",
             price |-> ozon_parse_price(IF c.label.found THEN c.label.text ELSE <<"0">>)]
       ELSE NoProduct

\* WildberriesParser._extract_products_from_html, one card: product_id is
\* an id attribute or else the first a[href] element
wildberries_extract_card(c) ==
    LET item == [id |-> IF c.id # 0 THEN c.id ELSE IF c.link # "" THEN 7 ELSE 0,
                 name |-> card_name("wildberries", c)]
    IN IF HtmlValid(item) /\ validate_data(Product(item))
       THEN [ok |-> TRUE, name |-> item.name, url |-> Product(item).url,
             query |-> IF Product(item).url = "search" THEN item.name ELSE "",
             price |-> wildberries_parse_price(IF c.label.found THEN c.label.text
                                               ELSE <<"0">>)]
       ELSE NoProduct

\* UzumParser._extract_product_from_card as _extract_products calls it: a
\* name shorter than 3 characters counts as none; re is a local name of the
\* function, bound only once the name has been taken from the href, so the
\* re.search on a labelled price text raises before that and the card is
\* skipped; without a labelled price text the price is the biggest number
\* if it is above 1000
uzum_extract_card(c) ==
    LET name == card_name("uzum", c)
        looped == name_loop(<<c.loc1, c.loc2, [found |-> c.link # "", text |-> ""]>>, "")
        re_bound == (looped = "" \/ Len(looped) < 3) /\ c.link # ""
        labelled == c.label.found /\ c.label.text # <<>>
        text == IF labelled THEN c.label.text
                ELSE IF c.biggest > 1000 THEN <<"2", "0", "0", "0">>
                ELSE IF c.label.found THEN <<>> ELSE <<"0">>
    IN IF name = "" \/ Len(name) < 3 THEN NoProduct
       ELSE IF labelled /\ ~re_bound THEN NoProduct
       ELSE [ok |-> TRUE, name |-> name,
             url |-> IF c.link = "" THEN "search" ELSE c.link,
             query |-> IF c.link = "" THEN name ELSE IF c.link = "search" THEN "abcd" ELSE "",
             price |-> uzum_parse_price(text)]

extract_card(a, c) ==
    CASE a = "ozon" -> ozon_extract_card(c)
      [] a = "wildberries" -> wildberries_extract_card(c)
      [] OTHER -> uzum_extract_card(c)
(***************************************************************************)
(* The JSON store (JSONStorage) and the tail of the bot's command handlers *)
(***************************************************************************)
\* A JSON file is readable (ok) with a list of dicts, or not readable.
\* JSONStorage._load_json: any exception gives []
load_json(file) == IF file.ok THEN file.recs ELSE <<>>

\* JSONStorage._save_json: the file afterwards and the value returned, when
\* the write is done ("ok"), when open() fails ("fail_open"), and when the
\* dump fails after open() has truncated the file ("fail_dump")
save_json(file, data, w) ==
    CASE w = "ok" -> [file |-> [ok |-> TRUE, recs |-> data], ret |-> TRUE]
      [] w = "fail_open" -> [file |-> file, ret |-> FALSE]
      [] OTHER -> [file |-> [ok |-> FALSE, recs |-> <<>>], ret |-> FALSE]

\* [p.dict() for p in products]: an organization has the key address, a
\* product the key price
RECURSIVE dicts(_, _)
dicts(kind, ms) ==
    IF ms = <<>> THEN <<>>
    ELSE <<IF kind = "listing"
           THEN [name |-> Head(ms).name, url |-> Head(ms).url, source |-> Head(ms).source,
                 price |-> Head(ms).price]
           ELSE [name |-> Head(ms).name, url |-> Head(ms).url, source |-> Head(ms).source,
                 address |-> NoKey]>>
         \o dicts(kind, Tail(ms))

\* JSONStorage.save_products / save_organizations
save_records(file, kind, ms, w) == save_json(file, load_json(file) \o dicts(kind, ms), w)

\* the inner loop of get_products: every filter key is in the record with
\* an equal value
RECURSIVE match(_, _, _)
match(rec, f, keys) ==
    IF keys = {} THEN TRUE
    ELSE LET key == CHOOSE x \in keys : TRUE
         IN IF key \notin DOMAIN rec \/ rec[key] # f[key] THEN FALSE
            ELSE match(rec, f, keys \ {key})

RECURSIVE filtered(_, _)
filtered(recs, f) ==
    IF recs = <<>> THEN <<>>
    ELSE (IF match(Head(recs), f, DOMAIN f) THEN <<Head(recs)>> ELSE <<>>)
         \o filtered(Tail(recs), f)

\* slip: the test of the filters argument is inverted
get_records_Inverted(file, f) ==
    IF DOMAIN f # {} THEN load_json(file) ELSE filtered(load_json(file), f)

\* JSONStorage.get_products / get_organizations
get_records(file, f) ==
    IF DOMAIN f = {} THEN load_json(file) ELSE filtered(load_json(file), f)

\* the product models the listing handlers build from a batch
RECURSIVE product_models(_)
product_models(ps) ==
    IF ps = <<>> THEN <<>>
    ELSE (IF validate_and_normalize_product(Head(ps)).ok
          THEN <<validate_and_normalize_product(Head(ps))>> ELSE <<>>)
         \o product_models(Tail(ps))

\* [Organization(**o) for o in organizations if o.get('name')]: the list,
\* or the exception the first failing constructor raises
RECURSIVE org_models(_)
org_models(os) ==
    IF os = <<>> THEN [raised |-> FALSE, models |-> <<>>]
    ELSE IF ~TruthyText(Head(os).name) THEN org_models(Tail(os))
    ELSE IF ~Organization(Head(os)).ok THEN [raised |-> TRUE, models |-> <<>>]
    ELSE [raised |-> org_models(Tail(os)).raised,
          models |-> IF org_models(Tail(os)).raised THEN <<>>
                     ELSE <<Organization(Head(os))>> \o org_models(Tail(os)).models]

(***************************************************************************)
(* State machine                                                           *)
(***************************************************************************)
\* a finished _make_request call: its channel, the final outcome of its HTTP
\* attempts, the attempts made, the value returned, whether the post-request
\* sleep ran, the _init_session calls made before it was sent, and the
\* records the search extracted from its body
NoCall == [ch |-> "none", status |-> NetErr, tries |-> 0, ret |-> "none", slept |-> FALSE,
           inits |-> 0, found |-> 0]

NoPrev == [status |-> -1, inits |-> 0, found |-> 0]

(***************************************************************************)
(* Values of the variables an operation does not use                       *)
(***************************************************************************)
\* the handlers of the overlapping commands
Handlers == 1..MaxCommands

RecordIdle ==
    /\ raw = RawRecord(NoKey, NoKey, NoKey, NoNum, NoNum, NoNum, FALSE)
    /\ canon = None
    /\ price_text = <<>>
    /\ price = Dec(0, 0)
    /\ card = NoCard
    /\ product = NoProduct
    /\ now = 0
    /\ first = None

StoreIdle ==
    /\ products_file = [ok |-> TRUE, recs |-> <<>>]
    /\ organizations_file = [ok |-> TRUE, recs |-> <<>>]
    /\ batch = <<>>
    /\ models = <<>>
    /\ save_ok = "none"
    /\ last_op = "none"
    /\ filters = <<>>
    /\ got = <<>>

LoopIdle ==
    /\ hpc = [i \in Handlers |-> "idle"]
    /\ running = 0
    /\ session_open = [i \in Handlers |-> FALSE]

AdapterIdle ==
    /\ use_proxy = FALSE
    /\ proxy = ""
    /\ query = <<>>
    /\ location = <<>>
    /\ search_url = <<>>
    /\ routes = <<>>

RaceIdle ==
    /\ spc = [i \in 1..2 |-> "idle"]
    /\ existing = [i \in 1..2 |-> <<>>]
    /\ batches = [i \in 1..2 |-> <<>>]

\* the engine at rest, for the operations that do not fetch
FetchIdle ==
    /\ delay = 2
    /\ retpc = "ready"
    /\ attempt = 0
    /\ web_attempt = 0
    /\ tries = 0
    /\ reinits = 0
    /\ calls = 0
    /\ prev = NoPrev
    /\ apiLast = NoPrev
    /\ last = NoCall
    /\ log = {}
    /\ result = <<>>
    /\ blocked = 0
    /\ lastStatus = -1
    /\ gapOk = TRUE
    /\ allFailed = TRUE
    /\ doc = NoDoc
    /\ out = <<>>
    /\ ran = <<>>
    /\ limit = 0

\* the variables of the engine but pc, and but answer
fetchRest == <<adapter, delay, retpc, attempt, web_attempt, tries, reinits, calls,
               prev, apiLast, last, log, result, blocked, lastStatus, gapOk,
               allFailed, doc, out, ran, limit>>

\* BaseParser.__init__ has stored the arguments; the subclass constructor
\* has not run yet and no search has started
Init ==
    /\ adapter \in Adapters
    /\ delay \in Delays
    /\ pc = "new"
    /\ retpc = "ready"
    /\ attempt = 0
    /\ web_attempt = 0
    /\ tries = 0
    /\ reinits = 0
    /\ calls = 0
    /\ prev = NoPrev
    /\ apiLast = NoPrev
    /\ last = NoCall
    /\ log = {}
    /\ result = <<>>
    /\ answer = "none"
    /\ blocked = 0
    /\ lastStatus = -1
    /\ gapOk = TRUE
    /\ allFailed = TRUE
    /\ doc = NoDoc
    /\ out = <<>>
    /\ ran = <<>>
    /\ limit = 0
    /\ RecordIdle
    /\ StoreIdle
    /\ LoopIdle
    /\ AdapterIdle
    /\ RaceIdle

\* the rest of the constructor: Wildberries and Uzum call _init_session
Construct ==
    /\ pc = "new"
    /\ pc' = IF HasInitSession(adapter) THEN "init" ELSE "ready"
    /\ UNCHANGED <<adapter, delay, retpc, attempt, web_attempt, tries, reinits, calls,
                   prev, apiLast, last,
                   log, result, answer, blocked, lastStatus, gapOk, allFailed, doc, out,
                   ran, limit>>
    /\ UNCHANGED <<recordVars, storeVars, loopVars, adapterVars, raceVars>>

\* _init_session after the final outcome s of a session.get: where it goes
\* and the ticks it sleeps.  An outcome the mounted Retry gives up on raises
\* inside session.get and is caught by the except clause.
InitStep(a, stage, s) ==
    IF Retryable(s) THEN [to |-> "ret", sleep |-> 0]
    ELSE IF a = "wildberries" /\ stage = "init" /\ s = 200 THEN [to |-> "ret", sleep |-> 1]
    ELSE IF a = "wildberries" /\ stage = "init" /\ s = 429 THEN [to |-> "init2", sleep |-> 10]
    ELSE [to |-> "ret", sleep |-> 0]

\* the session is used for one more HTTP attempt: it must not follow a
\* successful request sooner than delay
SendOk == gapOk /\ (lastStatus = 200 => blocked >= delay)

\* one HTTP attempt of _init_session, answered with s
InitRequest(s) ==
    /\ pc \in {"init", "init2"}
    /\ gapOk' = SendOk
    /\ allFailed' = (allFailed /\ (retpc = "ready" \/ Failed(s)))
    /\ lastStatus' = s
    /\ IF WillRetry(s, tries)
       THEN /\ tries' = tries + 1
            /\ blocked' = 0
            /\ pc' = pc
       ELSE /\ tries' = 0
            /\ blocked' = Min(delay, InitStep(adapter, pc, s).sleep)
            /\ pc' = IF InitStep(adapter, pc, s).to = "ret" THEN retpc ELSE "init2"
    /\ UNCHANGED <<adapter, delay, retpc, attempt, web_attempt, reinits, calls, prev, apiLast, last,
                   log,
                   result, answer, doc, out, ran, limit>>
    /\ UNCHANGED <<recordVars, storeVars, loopVars, adapterVars, raceVars>>

\* the caller starts a search on the constructed adapter
StartSearch(lim) ==
    /\ pc = "ready"
    /\ pc' = IF adapter = "wildberries" THEN "api" ELSE "search"
    /\ limit' = lim
    /\ UNCHANGED <<adapter, delay, retpc, attempt, web_attempt, tries, reinits, calls,
                   prev, apiLast, last,
                   log, result, answer, blocked, lastStatus, gapOk, allFailed, doc, out, ran>>
    /\ UNCHANGED <<recordVars, storeVars, loopVars, adapterVars, raceVars>>

\* the step the search takes after the transport call on channel ch returned r
StepOf(ch, r, body) ==
    CASE ch = "api" -> ApiStep(r, body, attempt, delay, limit)
      [] ch = "alt" -> AltStep(r, body, attempt, limit)
      [] ch = "catalog" -> CatalogStep(r, body, attempt, limit)
      [] ch = "web" -> WebStep(r, body, attempt, web_attempt, delay, limit)
      [] OTHER -> BaseStep(adapter, r, body, limit)

\* the number of records the search extracts from the body of a call (0
\* when it does not run the extractor on it)
Found(a, ch, r, body) ==
    IF Truthy(r) /\ (ch = "search" \/ r.status = 200) THEN Len(Extract(a, body)) ELSE 0

\* one HTTP attempt of the _make_request call in flight on channel ch,
\* answered with s and, when it is the final answer, with the given body;
\* then everything the search does up to its next request or its return
Request(ch, s, body) ==
    /\ pc = ch
    /\ gapOk' = SendOk
    /\ allFailed' = (allFailed /\ Failed(s))
    /\ lastStatus' = s
    /\ IF WillRetry(s, tries)
       THEN /\ tries' = tries + 1
            /\ blocked' = 0
            /\ UNCHANGED <<pc, retpc, attempt, web_attempt, reinits, calls, prev, apiLast, last, log,
                           result,
                           answer>>
       ELSE LET r == make_request(s)
                st == StepOf(ch, r, body)
            IN /\ tries' = 0
               /\ calls' = calls + 1
               /\ prev' = IF calls = 0 THEN NoPrev
                          ELSE [status |-> last.status, inits |-> last.inits,
                                found |-> last.found]
               /\ last' = [ch |-> ch, status |-> s, tries |-> tries + 1, ret |-> r.ret,
                           slept |-> r.slept, inits |-> reinits,
                           found |-> Found(adapter, ch, r, body)]
               /\ apiLast' = IF ch = "api"
                             THEN [status |-> s, inits |-> reinits,
                                   found |-> Found(adapter, ch, r, body)]
                             ELSE apiLast
               /\ log' = log \cup st.logs
               /\ attempt' = st.att
               /\ web_attempt' = st.watt
               /\ blocked' = Min(delay, (IF r.slept THEN delay ELSE 0) + st.sleep)
               /\ pc' = IF st.init THEN "init" ELSE st.to
               /\ retpc' = IF st.init THEN st.to ELSE retpc
               /\ reinits' = IF st.init THEN reinits + 1 ELSE reinits
               /\ result' = IF st.to = "done" THEN st.res ELSE result
               /\ answer' = IF st.to = "done" THEN Answer(FALSE, st.res) ELSE answer
    /\ UNCHANGED <<adapter, delay, limit, doc, out, ran>>
    /\ UNCHANGED <<recordVars, storeVars, loopVars, adapterVars, raceVars>>

ApiRequest == \E s \in Outcomes, body \in SearchDocs : Request("api", s, body)

AltRequest == \E s \in Outcomes, body \in SearchDocs : Request("alt", s, body)

CatalogRequest == \E s \in Outcomes, body \in SearchDocs : Request("catalog", s, body)

WebRequest == \E s \in Outcomes, body \in SearchDocs : Request("web", s, body)

SearchRequest == \E s \in Outcomes, body \in SearchDocs : Request("search", s, body)

Next ==
    \/ Construct
    \/ \E s \in Outcomes : InitRequest(s)
    \/ \E lim \in Limits : StartSearch(lim)
    \/ ApiRequest
    \/ AltRequest
    \/ CatalogRequest
    \/ WebRequest
    \/ SearchRequest

Spec == Init /\ [][Next]_vars

\* a search in progress is not abandoned by its caller
FairSpec == Spec /\ WF_vars(Next)

(***************************************************************************)
(* _extract_products applied to one document                               *)
(***************************************************************************)
InitExtract ==
    /\ adapter = "wildberries"
    /\ delay = 2
    /\ pc = "extract"
    /\ retpc = "ready"
    /\ attempt = 0
    /\ web_attempt = 0
    /\ tries = 0
    /\ reinits = 0
    /\ calls = 0
    /\ prev = NoPrev
    /\ apiLast = NoPrev
    /\ last = NoCall
    /\ log = {}
    /\ result = <<>>
    /\ answer = "none"
    /\ blocked = 0
    /\ lastStatus = -1
    /\ gapOk = TRUE
    /\ allFailed = TRUE
    /\ doc \in AllDocs
    /\ out = <<>>
    /\ ran = <<>>
    /\ limit = 0
    /\ RecordIdle
    /\ StoreIdle
    /\ LoopIdle
    /\ AdapterIdle
    /\ RaceIdle

ExtractProducts ==
    /\ pc = "extract"
    /\ pc' = "extracted"
    /\ out' = extract_products(doc).products
    /\ ran' = extract_products(doc).ran
    /\ UNCHANGED <<adapter, delay, retpc, attempt, web_attempt, tries, reinits, calls,
                   prev, apiLast, last,
                   log, result, answer, blocked, lastStatus, gapOk, allFailed, doc, limit>>
    /\ UNCHANGED <<recordVars, storeVars, loopVars, adapterVars, raceVars>>

NextExtract == ExtractProducts

SpecExtract == InitExtract /\ [][NextExtract]_vars

(***************************************************************************)
(* Validation and normalisation of one record, _parse_price on one text,   *)
(* a card extractor on one card                                            *)
(***************************************************************************)
RawRecords ==
    {RawRecord(n, u, s, p, r, c, co) :
        n \in {NoKey, Str(FALSE, ""), Str(TRUE, ""), Str(FALSE, "ab")},
        u \in {NoKey, Str(FALSE, "u")},
        s \in {NoKey, Str(TRUE, ""), Str(FALSE, "wildberries"), Str(FALSE, "yandex_maps"),
               Str(FALSE, "shop")},
        p \in {NoNum, NumKey("none", Dec(0, 0), <<>>), Num(5, 0), Num(-5, 0),
               NumKey("text", Dec(0, 0), <<"1", "2">>), NumKey("text", Dec(0, 0), <<"x">>)},
        r \in {NoNum, Num(45, 1), Num(7, 0), NumKey("text", Dec(0, 0), <<"4", ",", "5">>)},
        c \in {NoNum, Num(3, 0), Num(-15, 1), NumKey("text", Dec(0, 0), <<"1", ".", "5">>)},
        co \in BOOLEAN}

PriceTexts ==
    SeqsUpTo({"1", "9", " ", ",", ".", "₽"}, MaxText)
        \cup {<<"1", " ", "2", "9", "9", " ", "₽">>, <<"1", "9", "9", ",", "9", "0">>}

InitRecord ==
    /\ adapter \in Adapters
    /\ answer = "none"
    /\ FetchIdle
    /\ StoreIdle
    /\ LoopIdle
    /\ AdapterIdle
    /\ RaceIdle
    /\ canon = None
    /\ price = Dec(0, 0)
    /\ product = NoProduct
    /\ now = 0
    /\ first = None
    /\ \/ /\ pc = "raw"
          /\ raw \in RawRecords
          /\ price_text = <<>>
          /\ card = NoCard
       \/ /\ pc = "text"
          /\ adapter \in {"ozon", "wildberries", "uzum"}
          /\ raw = RawRecord(NoKey, NoKey, NoKey, NoNum, NoNum, NoNum, FALSE)
          /\ price_text \in PriceTexts
          /\ card = NoCard
       \/ /\ pc = "card"
          /\ adapter \in {"ozon", "wildberries", "uzum"}
          /\ raw = RawRecord(NoKey, NoKey, NoKey, NoNum, NoNum, NoNum, FALSE)
          /\ price_text = <<>>
          /\ card \in Cards

\* the adapter validates the record before it returns it
Validate ==
    /\ pc = "raw"
    /\ pc' = IF Validated(adapter, raw).ok THEN "validated" ELSE "rejected"
    /\ UNCHANGED <<fetchRest, answer, recordVars, storeVars, loopVars, adapterVars, raceVars>>

\* the bot handler builds the model
Normalize ==
    /\ pc = "validated"
    /\ pc' = "normalized"
    /\ canon' = Stamped(Normalized(adapter, Validated(adapter, raw).rec), now)
    /\ UNCHANGED <<fetchRest, answer, raw, price_text, price, card, product, now, first,
                   storeVars, loopVars, adapterVars, raceVars>>

\* a second run on the same record, dt ticks of the clock later
Renormalize(dt) ==
    /\ pc = "normalized"
    /\ pc' = "renormalized"
    /\ now' = now + dt
    /\ first' = canon
    /\ canon' = Stamped(Normalized(adapter, Validated(adapter, raw).rec), now')
    /\ UNCHANGED <<fetchRest, answer, raw, price_text, price, card, product, storeVars,
                   loopVars, adapterVars, raceVars>>

ParsePrice ==
    /\ pc = "text"
    /\ pc' = "priced"
    /\ price' = parse_price(adapter, price_text)
    /\ UNCHANGED <<fetchRest, answer, raw, canon, price_text, card, product, now, first,
                   storeVars, loopVars, adapterVars, raceVars>>

ExtractCard ==
    /\ pc = "card"
    /\ pc' = "carded"
    /\ product' = extract_card(adapter, card)
    /\ UNCHANGED <<fetchRest, answer, raw, canon, price_text, price, card, now, first,
                   storeVars, loopVars, adapterVars, raceVars>>

NextRecord ==
    \/ Validate
    \/ Normalize
    \/ \E dt \in {0, 1} : Renormalize(dt)
    \/ ParsePrice
    \/ ExtractCard

SpecRecord == InitRecord /\ [][NextRecord]_vars

(***************************************************************************)
(* The tail of the command handlers on the JSON store, /stats and /clear   *)
(***************************************************************************)
ListingRaws ==
    {RawRecord(Str(FALSE, "ab"), Str(FALSE, "u"), Str(FALSE, s), p, NoNum, NoNum, FALSE) :
        s \in {"wildberries", "ozon"}, p \in {Num(5, 0)}}
    \cup {RawRecord(Str(FALSE, "ab"), Str(FALSE, "u"), Str(FALSE, "wildberries"),
                    NumKey("text", Dec(0, 0), <<"x">>), NoNum, NoNum, FALSE)}

PlaceRaws ==
    {RawRecord(n, NoKey, Str(FALSE, s), NoNum, NoNum, NoNum, FALSE) :
        n \in {Str(FALSE, "ab"), Str(FALSE, "")}, s \in {"yandex_maps"}}
    \cup {RawRecord(Str(FALSE, "cd"), NoKey, Str(FALSE, "2gis"), NoNum,
                    NumKey("text", Dec(0, 0), <<"4", ",", "5">>), NoNum, FALSE),
          RawRecord(Str(FALSE, "cd"), NoKey, Str(FALSE, "2gis"), NoNum, Num(45, 1), NoNum,
                    FALSE)}

Filters ==
    UNION {[K -> {Str(FALSE, "wildberries"), Str(FALSE, "2gis")}] :
              K \in SUBSET {"source", "address"}}

InitStore ==
    /\ adapter = "wildberries"
    /\ pc = "store"
    /\ answer = "none"
    /\ FetchIdle
    /\ RecordIdle
    /\ StoreIdle
    /\ LoopIdle
    /\ AdapterIdle
    /\ RaceIdle

\* cmd_wildberries / cmd_ozon / cmd_uzum after parse_search returned b; the
\* reply text formats the raw price of the records, and a price that is no
\* number raises there, after the save
HandleListing(b, w) ==
    /\ Len(load_json(products_file)) + Len(b) <= MaxStored
    /\ batch' = b
    /\ last_op' = "listing"
    /\ answer' = Answer((\E i \in 1..Len(b) : b[i].price.k \in {"none", "text"}), b)
    /\ models' = product_models(b)
    /\ IF product_models(b) # <<>>
       THEN /\ products_file' = save_records(products_file, "listing", product_models(b), w).file
            /\ save_ok' = IF save_records(products_file, "listing", product_models(b), w).ret
                          THEN "true" ELSE "false"
       ELSE /\ products_file' = products_file
            /\ save_ok' = "none"
    /\ filters' = <<>>
    /\ got' = <<>>
    /\ UNCHANGED <<fetchRest, pc, recordVars, organizations_file, loopVars, adapterVars, raceVars>>

\* cmd_yandex_maps / cmd_google_maps / cmd_2gis after search_organizations
\* returned b
HandlePlaces(b, w) ==
    /\ Len(load_json(organizations_file)) + Len(b) <= MaxStored
    /\ batch' = b
    /\ last_op' = "places"
    /\ answer' = IF b = <<>> THEN Answer(FALSE, b) ELSE Answer(org_models(b).raised, b)
    /\ models' = IF b = <<>> THEN <<>> ELSE org_models(b).models
    /\ IF b # <<>> /\ ~org_models(b).raised
       THEN /\ organizations_file' =
                    save_records(organizations_file, "places", org_models(b).models, w).file
            /\ save_ok' = IF save_records(organizations_file, "places", org_models(b).models, w).ret
                          THEN "true" ELSE "false"
       ELSE /\ organizations_file' = organizations_file
            /\ save_ok' = "none"
    /\ filters' = <<>>
    /\ got' = <<>>
    /\ UNCHANGED <<fetchRest, pc, recordVars, products_file, loopVars, adapterVars, raceVars>>

\* get_products(filters) or get_organizations(filters), as cmd_stats calls them
GetRecords(kind, f) ==
    /\ last_op' = IF kind = "listing" THEN "get_products" ELSE "get_organizations"
    /\ filters' = f
    /\ got' = get_records(IF kind = "listing" THEN products_file ELSE organizations_file, f)
    /\ batch' = <<>>
    /\ models' = <<>>
    /\ save_ok' = "none"
    /\ answer' = "stats"
    /\ UNCHANGED <<fetchRest, pc, recordVars, products_file, organizations_file, loopVars,
                   adapterVars, raceVars>>

\* handle_callback, clear_confirm: both files are deleted and made anew
Wipe ==
    /\ last_op' = "wipe"
    /\ products_file' = [ok |-> TRUE, recs |-> <<>>]
    /\ organizations_file' = [ok |-> TRUE, recs |-> <<>>]
    /\ batch' = <<>>
    /\ models' = <<>>
    /\ save_ok' = "none"
    /\ filters' = <<>>
    /\ got' = <<>>
    /\ answer' = "cleared"
    /\ UNCHANGED <<fetchRest, pc, recordVars, loopVars, adapterVars, raceVars>>

NextStore ==
    \/ \E b \in SeqsUpTo(ListingRaws, MaxBatch), w \in {"ok", "fail_open", "fail_dump"} :
           HandleListing(b, w)
    \/ \E b \in SeqsUpTo(PlaceRaws, MaxBatch), w \in {"ok", "fail_open", "fail_dump"} :
           HandlePlaces(b, w)
    \/ \E kind \in {"listing", "places"}, f \in Filters : GetRecords(kind, f)
    \/ Wipe

SpecStore == InitStore /\ [][NextStore]_vars

(***************************************************************************)
(* The command handlers on the bot's event loop.  The handlers are         *)
(* coroutines of one thread: a handler gives the thread up only at an      *)
(* await; the adapter's calls (the request and time.sleep) are not awaits. *)
(* running is the handler inside its adapter, 0 when the thread is free.   *)
(***************************************************************************)
InitLoop ==
    /\ adapter = "wildberries"
    /\ pc = "loop"
    /\ answer = "none"
    /\ FetchIdle
    /\ RecordIdle
    /\ StoreIdle
    /\ LoopIdle
    /\ AdapterIdle
    /\ RaceIdle

\* a command arrives: its handler runs to 'await message.answer("Ищу ...")'
Begin(i) ==
    /\ hpc[i] = "idle"
    /\ running = 0
    /\ hpc' = [hpc EXCEPT ![i] = "acking"]
    /\ UNCHANGED <<running, session_open, fetchVars, recordVars, storeVars, adapterVars,
                   raceVars>>

\* the await is over: the handler constructs its parser, which opens a
\* session, and calls parse_search, which sends the first request
Resume(i) ==
    /\ hpc[i] = "acking"
    /\ running = 0
    /\ hpc' = [hpc EXCEPT ![i] = "requesting"]
    /\ running' = i
    /\ session_open' = [session_open EXCEPT ![i] = TRUE]
    /\ UNCHANGED <<fetchVars, recordVars, storeVars, adapterVars, raceVars>>

\* _make_request got its response and enters time.sleep(self.delay)
RequestDone(i) ==
    /\ hpc[i] = "requesting"
    /\ hpc' = [hpc EXCEPT ![i] = "sleeping"]
    /\ UNCHANGED <<running, session_open, fetchVars, recordVars, storeVars, adapterVars,
                   raceVars>>

\* time.sleep returns: the adapter sends another request, or parse_search
\* returns and the handler reaches the await of its reply
WakeUp(i, more) ==
    /\ hpc[i] = "sleeping"
    /\ hpc' = [hpc EXCEPT ![i] = IF more THEN "requesting" ELSE "replying"]
    /\ running' = IF more THEN running ELSE 0
    /\ UNCHANGED <<session_open, fetchVars, recordVars, storeVars, adapterVars, raceVars>>

\* the request raised: _make_request returns without the delay, parse_search
\* returns and the handler reaches the await of its reply
RequestFailed(i) ==
    /\ hpc[i] = "requesting"
    /\ hpc' = [hpc EXCEPT ![i] = "replying"]
    /\ running' = 0
    /\ UNCHANGED <<session_open, fetchVars, recordVars, storeVars, adapterVars, raceVars>>

\* the reply is sent and the handler returns; nothing closes the session
Finish(i) ==
    /\ hpc[i] = "replying"
    /\ running = 0
    /\ hpc' = [hpc EXCEPT ![i] = "done"]
    /\ UNCHANGED <<running, session_open, fetchVars, recordVars, storeVars, adapterVars,
                   raceVars>>

\* the interpreter frees the parser of a finished handler, at a time of
\* its choosing, and the sockets of its session with it
Collect(i) ==
    /\ hpc[i] = "done"
    /\ session_open[i]
    /\ session_open' = [session_open EXCEPT ![i] = FALSE]
    /\ UNCHANGED <<hpc, running, fetchVars, recordVars, storeVars, adapterVars, raceVars>>

HandlerStep(i) ==
    \/ Begin(i)
    \/ Resume(i)
    \/ RequestDone(i)
    \/ \E more \in BOOLEAN : WakeUp(i, more)
    \/ RequestFailed(i)
    \/ Finish(i)
    \/ Collect(i)

NextLoop == \E i \in Handlers : HandlerStep(i)

SpecLoop == InitLoop /\ [][NextLoop]_vars

(***************************************************************************)
(* An adapter from its construction to its first search request: the       *)
(* search url it builds and the way each of its requests takes.  A url is  *)
(* a sequence whose elements are the fixed parts of the url, each as one   *)
(* element, and the characters and escapes made of the arguments.          *)
(***************************************************************************)
\* urllib.parse.quote on a text of letters, spaces and commas; space is
\* what a space becomes: "%20" for quote, "+" for the quote_plus of
\* urlencode
RECURSIVE quote(_, _)
quote(cs, space) ==
    IF cs = <<>> THEN <<>>
    ELSE <<IF Head(cs) = " " THEN space ELSE IF Head(cs) = "," THEN "%2C" ELSE Head(cs)>>
         \o quote(Tail(cs), space)

\* _build_search_url of adapter a; the 2GIS adapter is built for the city
\* "moscow"
build_search_url(a, q, loc) ==
    CASE a = "ozon" -> <<"https://www.ozon.ru/search/?text=">> \o quote(q, "%20")
      [] a = "uzum" -> <<"https://uzum.uz/ru/search?query=">> \o quote(q, "%20")
      [] a = "wildberries" ->
            <<"https://search.wb.ru/exactmatch/ru/common/v4/search?query=">>
                \o quote(q, "+")
                \o <<"&resultset=catalog&limit=100&sort=popular&page=1&appType=1&curr=rub",
                      "&dest=-1257786&lang=ru&locale=ru&reg=0",
                      "&regions=80%2C38%2C83%2C4%2C64%2C33%2C68%2C70%2C30%2C40%2C86%2C75",
                      "%2C69%2C1%2C31%2C66%2C22%2C48%2C71">>
      [] a = "google_maps" ->
            <<"https://www.google.com/maps/search/">>
                \o quote(IF loc # <<>> THEN q \o <<" ">> \o loc ELSE q, "%20")
      [] a = "yandex_maps" ->
            <<"https://yandex.ru/maps/?text=">>
                \o quote(IF loc # <<>> THEN q \o <<",", " ">> \o loc ELSE q, "%20")
      [] OTHER ->
            <<"https://2gis.ru/moscow/search/">>
                \o quote(IF loc # <<>> /\ loc # <<"m", "o", "s", "c", "o", "w">>
                         THEN q \o <<" ">> \o loc ELSE q, "%20")

InitAdapter ==
    /\ adapter \in Adapters
    /\ pc = "adapter"
    /\ answer = "none"
    /\ FetchIdle
    /\ RecordIdle
    /\ StoreIdle
    /\ LoopIdle
    /\ RaceIdle
    /\ use_proxy \in BOOLEAN
    /\ proxy \in {"", "http://proxy:8080"}
    /\ query \in {q \in SeqsUpTo({"a", " "}, MaxText) :
                     q # <<>> /\ Head(q) # " " /\ q[Len(q)] # " "}
    /\ location \in IF adapter \in {"google_maps", "yandex_maps", "2gis"}
                    THEN {<<>>, <<"a">>, <<"m", "o", "s", "c", "o", "w">>}
                    ELSE {<<>>}
    /\ search_url = <<>>
    /\ routes = <<>>

\* the constructor: the Wildberries and Uzum adapters call _init_session,
\* which sends self.session.get(BASE_URL) without a proxies argument
ConstructAdapter ==
    /\ pc = "adapter"
    /\ pc' = "constructed"
    /\ routes' = IF HasInitSession(adapter)
                 THEN Append(routes, [req |-> "init", via |-> "direct"])
                 ELSE routes
    /\ UNCHANGED <<fetchRest, answer, recordVars, storeVars, loopVars, use_proxy, proxy,
                   query, location, search_url, raceVars>>

\* parse_search / search_organizations up to its first _make_request, which
\* passes proxies when use_proxy and proxy are both true
Search ==
    /\ pc = "constructed"
    /\ pc' = "searched"
    /\ search_url' = build_search_url(adapter, query, location)
    /\ routes' = Append(routes, [req |-> "search",
                                 via |-> IF use_proxy /\ proxy # "" THEN "proxy"
                                         ELSE "direct"])
    /\ UNCHANGED <<fetchRest, answer, recordVars, storeVars, loopVars, use_proxy, proxy,
                   query, location, raceVars>>

NextAdapter == ConstructAdapter \/ Search

SpecAdapter == InitAdapter /\ [][NextAdapter]_vars

(***************************************************************************)
(* Two JSONStorage instances over one data directory, each in a call of    *)
(* save_products.  The call reads the file, extends the list it read and   *)
(* writes the list back; nothing orders the steps of the two calls.        *)
(***************************************************************************)
InitRace ==
    /\ adapter = "wildberries"
    /\ pc = "race"
    /\ answer = "none"
    /\ FetchIdle
    /\ RecordIdle
    /\ StoreIdle
    /\ LoopIdle
    /\ AdapterIdle
    /\ spc = [i \in 1..2 |-> "idle"]
    /\ existing = [i \in 1..2 |-> <<>>]
    /\ batches \in [1..2 -> {product_models(b) : b \in SeqsUpTo(ListingRaws, MaxBatch)}
                                \ {<<>>}]

\* existing = self._load_json(self.products_file); existing.extend(...)
LoadExisting(i) ==
    /\ spc[i] = "idle"
    /\ spc' = [spc EXCEPT ![i] = "loaded"]
    /\ existing' = [existing EXCEPT
                        ![i] = load_json(products_file) \o dicts("listing", batches[i])]
    /\ UNCHANGED <<fetchVars, recordVars, storeVars, loopVars, adapterVars, batches>>

\* return self._save_json(self.products_file, existing)
SaveExisting(i) ==
    /\ spc[i] = "loaded"
    /\ spc' = [spc EXCEPT ![i] = "returned"]
    /\ products_file' = save_json(products_file, existing[i], "ok").file
    /\ UNCHANGED <<fetchVars, recordVars, organizations_file, batch, models, save_ok,
                   last_op, filters, got, loopVars, adapterVars, existing, batches>>

NextRace == \E i \in 1..2 : LoadExisting(i) \/ SaveExisting(i)

SpecRace == InitRace /\ [][NextRace]_vars

(***************************************************************************)
(* Properties                                                              *)
(***************************************************************************)
Channels == {"api", "alt", "catalog", "web", "search"}

Done == pc = "done"

\* C1: after a request of a search was answered 498, _init_session runs
\* before the next request of that search is sent; when the first request
\* got 498 and the second got 200, exactly one _init_session call lies
\* between them.
C1_ReinitAfterSoftBlock ==
    /\ (calls >= 2 /\ prev.status = 498) => last.inits > prev.inits
    /\ (calls = 2 /\ prev.status = 498 /\ last.status = 200) => last.inits = prev.inits + 1

\* the API channel (its alternate endpoints included) returned records
ApiReturned == \E c \in {"api", "alt", "catalog"} : Ev(c, "received") \in log

\* a request of the web channel is in flight or has been answered
WebRequested == pc = "web" \/ last.ch = "web"

\* C2: in Wildberries parse_search the web channel is requested only after
\* the API channel was tried and gave no records; when the API channel ends
\* without records the web channel is requested before the operation
\* returns; when the web channel gives nothing either, the list returned is
\* empty.
C2_WebAfterApi ==
    /\ WebRequested => (apiLast.status # -1 /\ ~ApiReturned)
    /\ (adapter = "wildberries" /\ Done /\ ~ApiReturned) => last.ch = "web"
    /\ (Done /\ last.ch = "web" /\ last.found = 0) => result = <<>>

C2_Witness ==
    /\ Done
    /\ apiLast.status = 200
    /\ apiLast.found = 0
    /\ last.ch = "web"
    /\ last.status = 200
    /\ last.found = 0
    /\ result = <<>>

\* C3: for every adapter, a search all of whose HTTP requests failed
\* (network error, timeout, error status) returns an empty list.
C3_AllFailedReturnsEmpty ==
    (Done /\ allFailed) => result = <<>>

C3_Witness ==
    /\ Done
    /\ allFailed
    /\ adapter = "wildberries"
    /\ calls = 3
    /\ last.status = 403
    /\ result = <<>>

\* C4: every search terminates, and a Wildberries parse_search makes at
\* most 7 _make_request calls before it returns.
C4_BoundedSearch ==
    /\ [](calls <= 7)
    /\ <>Done

C4_Witness ==
    /\ Done
    /\ adapter = "wildberries"
    /\ calls = 7

C6_SoftBlockReturned ==
    (calls >= 1 /\ last.status = 498) => (last.ret = "resp" /\ last.slept)

C6_Witness ==
    /\ calls >= 1
    /\ last.status = 498
    /\ last.ret = "resp"
    /\ last.slept

\* C7: between a successful HTTP request on an adapter's session and the
\* next HTTP request on that session the adapter blocks for at least its
\* delay, session-initialisation requests included.
C7_DelayBetweenRequests == gapOk

\* C8: when the Wildberries API channel answers 200 without extractable
\* records and the web channel answers 200 without extractable records,
\* parse_search returns an empty list and has logged one event for the
\* API channel and another one for the web channel saying so.
C8_TwoExhaustedEvents ==
    (/\ adapter = "wildberries"
     /\ Done
     /\ apiLast.status = 200
     /\ apiLast.found = 0
     /\ last.ch = "web"
     /\ last.status = 200
     /\ last.found = 0)
    => (/\ result = <<>>
        /\ Ev("api", "no_products") \in log
        /\ Ev("web", "returned_0") \in log
        /\ Ev("web", "returned_n") \notin log)

C8_Witness ==
    /\ adapter = "wildberries"
    /\ Done
    /\ apiLast.status = 200
    /\ apiLast.found = 0
    /\ last.ch = "web"
    /\ last.status = 200
    /\ last.found = 0
    /\ Ev("api", "no_products") \in log
    /\ Ev("web", "returned_0") \in log

\* C9: the outcome of a search tells records found, none found and error
\* apart; a search all of whose requests failed is not reported as
\* "none found".
C9_FailureNotNoneFound ==
    (Done /\ allFailed) => answer # "none_found"

\* the first strategy of the order that yields a record
RECURSIVE FirstWinner(_, _)
FirstWinner(order, d) ==
    IF order = <<>> THEN <<>>
    ELSE IF Head(order) = "std" /\ StdStrategy(d) # <<>> THEN <<"std">>
    ELSE IF Head(order) = "deep" /\ DeepStrategy(d) # <<>> THEN <<"deep">>
    ELSE IF Head(order) = "html" /\ HtmlStrategy(d) # <<>> THEN <<"html">>
    ELSE FirstWinner(Tail(order), d)

RecordsOf(name, d) ==
    CASE name = "std" -> StdStrategy(d)
      [] name = "deep" -> DeepStrategy(d)
      [] OTHER -> HtmlStrategy(d)

\* the declared order: standard JSON paths then deep scan for JSON input,
\* the HTML card extractor for other input
DeclaredOrder(d) == IF d.fmt = "html" THEN <<"html">> ELSE <<"std", "deep">>

\* C10: _extract_products returns exactly the records of the first strategy
\* of the declared order that yields a record (nothing when none does).
C10_FirstStrategyWins ==
    pc = "extracted" =>
        IF FirstWinner(DeclaredOrder(doc), doc) = <<>>
        THEN out = <<>>
        ELSE out = RecordsOf(FirstWinner(DeclaredOrder(doc), doc)[1], doc)

\* C11: validation followed by normalisation never yields a model whose name
\* or source is empty or blank after trimming, whatever the source tag and
\* the other keys of the raw record.
C11_NoBlankNameOrSource ==
    (pc = "normalized" /\ canon.ok) => (~Blank(canon.name) /\ ~Blank(canon.source))

\* the record holds the required fields of a Listing-Item
RequiredPresent(p) == RequiredOk(p.name) /\ RequiredOk(p.url) /\ RequiredOk(p.source)

\* C12: a raw Listing-Item whose price or rating does not convert to a number
\* is accepted with that field 0.0, and one whose review count does not
\* convert to an integer with 0.
C12_UntypableBecomesZero ==
    (/\ pc \in {"rejected", "normalized"}
     /\ adapter \in {"ozon", "wildberries", "uzum"}
     /\ RequiredPresent(raw))
    => (/\ pc = "normalized"
        /\ canon.ok
        /\ ~PyFloat(raw.price).ok => canon.price = Dec(0, 0)
        /\ ~PyFloat(raw.rating).ok => canon.rating = Dec(0, 0)
        /\ ~PyInt(raw.reviews_count).ok => canon.reviews_count = Dec(0, 0))

\* the models of the records of a batch that pass normalisation, in order
RECURSIVE ValidModels(_, _)
ValidModels(a, b) ==
    IF b = <<>> THEN <<>>
    ELSE (IF Normalized(a, Head(b)).ok THEN <<Normalized(a, Head(b))>> ELSE <<>>)
         \o ValidModels(a, Tail(b))

IsPrefix(a, b) == Len(a) <= Len(b) /\ SubSeq(b, 1, Len(a)) = a

\* C14: a save_products or save_organizations call leaves every record
\* stored before in the store, unchanged and in its position, and puts the
\* records of its batch after them, duplicates kept; only the wipe removes
\* records.
C14_AppendOnly ==
    [][last_op' # "wipe" =>
          /\ IsPrefix(products_file.recs, products_file'.recs)
          /\ IsPrefix(organizations_file.recs, organizations_file'.recs)
          /\ (last_op' = "listing" /\ save_ok' = "true") =>
                 products_file'.recs = products_file.recs \o dicts("listing", models')
          /\ (last_op' = "places" /\ save_ok' = "true") =>
                 organizations_file'.recs = organizations_file.recs \o dicts("places", models')
      ]_vars

\* C15: when the write of a batch fails, the answer to the request is
\* neither that of a successful save nor "no records found".
C15_StoreFailureSurfaced ==
    (last_op \in {"listing", "places"} /\ save_ok = "false")
        => answer \notin {"found", "none_found"}

\* the record holds every key of the filters with an equal value
HoldsFilters(r) == \A k \in DOMAIN filters : k \in DOMAIN r /\ r[k] = filters[k]

\* C16: get_products(filters) and get_organizations(filters) return exactly
\* the stored records that hold every filter key with an equal value, in
\* stored order, and all stored records when there are no filters.
C16_ExactMatchQuery ==
    /\ last_op = "get_products" => got = SelectSeq(products_file.recs, HoldsFilters)
    /\ last_op = "get_organizations" => got = SelectSeq(organizations_file.recs, HoldsFilters)
    /\ (last_op = "get_products" /\ filters = <<>>) => got = products_file.recs

C16_Witness ==
    /\ last_op = "get_products"
    /\ Len(products_file.recs) = 2
    /\ DOMAIN filters = {"source"}
    /\ Len(got) = 1

\* C17: while one pipeline is suspended in its post-request delay, the
\* handler of an overlapping command that is waiting for the thread can take
\* its next step: the delay of one pipeline never stalls another.
C17_DelayDoesNotStall ==
    \A i, j \in Handlers :
        (i # j /\ hpc[i] = "sleeping" /\ hpc[j] \in {"acking", "replying"})
            => ENABLED HandlerStep(j)

\* C18: once the pipeline of a handler has finished, the session its
\* adapter opened is closed: no session stays open after its pipeline.
C18_SessionReleased ==
    \A i \in Handlers : hpc[i] = "done" => ~session_open[i]

\* the number a text spells once everything but digits and decimal
\* separators is stripped and a comma is read as the decimal point
SeparatorsKept(cs) == Replace(ReSubKeep(Digits \cup {",", "."}, cs), ",", <<".">>)

\* C19: for Ozon, Wildberries and Uzum the price-text parser maps "1 299 ₽"
\* to 1299.0 and "199,90" to 199.90: everything except digits and decimal
\* separators is stripped and a comma is read as the decimal point.
C19_PriceHeuristic ==
    pc = "priced" =>
        /\ price_text = <<"1", " ", "2", "9", "9", " ", "₽">> => price = Dec(1299, 0)
        /\ price_text = <<"1", "9", "9", ",", "9", "0">> => price = Dec(1999, 1)
        /\ FloatOfText(SeparatorsKept(price_text)).ok
               => price = FloatOfText(SeparatorsKept(price_text)).val

\* the adapter can take a direct url from the card: Wildberries from an id
\* attribute or a link, Ozon and Uzum from a link
DirectLink(a, c) == IF a = "wildberries" THEN c.id # 0 \/ c.link # "" ELSE c.link # ""

\* C20: for every listing adapter a card with a name and no extractable
\* direct link yields a record whose url is the synthetic search-query url,
\* and every record has a non-empty url.
C20_SyntheticUrl ==
    pc = "carded" =>
        /\ (card_name(adapter, card) # "" /\ ~DirectLink(adapter, card))
               => (product.ok /\ product.url = "search")
        /\ product.ok => product.url # ""

\* C26: in Wildberries parse_search, a first API request answered with
\* status 429, 498, 403 or 503 is followed by another API request (after a
\* wait, and after _init_session for a 429), not by the web channel.
C26_ApiRetriedOnSoftStatus ==
    (/\ adapter = "wildberries"
     /\ calls = 1
     /\ last.ch = "api"
     /\ last.status \in {429, 498, 403, 503})
    => (pc = "api" \/ (pc = "init" /\ retpc = "api"))

\* the candidate arrays of the deep structure scan in the order in which the
\* scan tries them
TriedOrder == SortArrays(find_product_arrays(doc))

\* C27: when the deep structure scan runs, every candidate array found
\* under a known key is tried before every array found under another key,
\* and of two arrays of the same class the longer one is tried first.
C27_KnownKeyArraysFirst ==
    (pc = "extracted" /\ ran = <<"std", "deep">>) =>
        \A i, j \in DOMAIN TriedOrder :
            i < j => /\ TriedOrder[i].cls <= TriedOrder[j].cls
                     /\ TriedOrder[i].cls = TriedOrder[j].cls
                            => Len(TriedOrder[i].items) >= Len(TriedOrder[j].items)


\* C21: a record whose url was synthesised from a search query can be told
\* apart from every record the same adapter makes of a card with a link of
\* its own: nothing in the record of a card without an extractable link
\* equals the record of a card with one.
C21_SyntheticUrlMarked ==
    (pc = "carded" /\ product.ok /\ ~DirectLink(adapter, card)) =>
        \A c \in Cards : DirectLink(adapter, c) => extract_card(adapter, c) # product

\* C22: an Uzum record whose price is the biggest number above 1000 of the
\* card text, taken because the card has no price-labelled element, differs
\* from every record whose price came from a labelled element.
C22_FallbackPriceMarked ==
    (/\ pc = "carded"
     /\ adapter = "uzum"
     /\ product.ok
     /\ ~card.label.found
     /\ card.biggest > 1000)
    => \A c \in Cards :
           (c.label.found /\ c.label.text # <<>>) => uzum_extract_card(c) # product

\* the text of the first name locator of a card, in declared order, that
\* yields non-empty text ("": none does)
FirstNonEmpty(c) ==
    IF c.loc1.found /\ c.loc1.text # "" THEN c.loc1.text
    ELSE IF c.loc2.found /\ c.loc2.text # "" THEN c.loc2.text ELSE ""

\* C28: the name of a record the Wildberries HTML or the Uzum card extractor
\* makes of a card with a locator that yields non-empty text is the text of
\* the first such locator in declared order.
C28_FirstLocatorWins ==
    (/\ pc = "carded"
     /\ adapter \in {"wildberries", "uzum"}
     /\ product.ok
     /\ FirstNonEmpty(card) # "")
    => product.name = FirstNonEmpty(card)

\* C23: running normalisation twice on the same record yields equal models,
\* with the same value in every field.
C23_SameRecordTwice == pc = "renormalized" => canon = first

\* C24: every Listing-Item the normaliser returns has price >= 0,
\* 0 <= rating <= 5 and reviews_count >= 0, whatever numbers the raw record
\* carries.
C24_NumericRanges ==
    (/\ pc \in {"normalized", "renormalized"}
     /\ adapter \in {"ozon", "wildberries", "uzum"}
     /\ canon.ok)
    => /\ canon.price.mant >= 0
       /\ canon.rating.mant >= 0
       /\ canon.rating.mant <= 5 * 10 ^ canon.rating.scale
       /\ canon.reviews_count.mant >= 0

\* the number of places of the url at which the text t stands
Occurrences(t, url) ==
    Cardinality({k \in 1..Len(url) : /\ k + Len(t) - 1 <= Len(url)
                                     /\ SubSeq(url, k, k + Len(t) - 1) = t})

\* C25: for every adapter, every non-empty term and every optional location
\* the search url the adapter builds contains the percent-encoded term
\* exactly once.
C25_TermOnceInUrl ==
    pc = "searched" => Occurrences(quote(query, "%20"), search_url) = 1

\* C29: when the adapter is built with use_proxy=True and a proxy address,
\* every request it has sent went through the proxy, the requests of
\* _init_session included.
C29_AllThroughProxy ==
    (use_proxy /\ proxy # "") => \A i \in DOMAIN routes : routes[i].via = "proxy"

\* C30: once the save_products calls of both store instances have
\* returned, the records of both batches are in the store.
C30_NoBatchLost ==
    (\A i \in 1..2 : spc[i] = "returned")
        => Len(load_json(products_file)) = Len(batches[1]) + Len(batches[2])

====
